---- MODULE Spec2Model ----
(***************************************************************************)
(* Model of @synet/fs-ai: AIFileSystem, a policy layer in front of an      *)
(* IAsyncFileSystem collaborator.  Two implementations of the class live   *)
(* in src/src/index.ts: the lexical one (lines 10-332, normalizePath +     *)
(* validatePath over strings) and the homePath one (lines 334-620,         *)
(* node:path resolve/relative against config.homePath).  A third one, the  *)
(* legacy one, lives in src/unnamed/part_002 (regular-expression           *)
(* normalizePath, spread-merged configuration, '[AI-SAFETY]' messages).    *)
(*                                                                         *)
(* A JavaScript string is a sequence of one-character strings, so that     *)
(* split, startsWith, includes and replace are computed as the code        *)
(* computes them.                                                          *)
(***************************************************************************)
EXTENDS Integers, Sequences, FiniteSets, TLC

VARIABLES impl, given, config, path, last, baseCalls, mutations

vars == <<impl, given, config, path, last, baseCalls, mutations>>

----------------------------------------------------------------------------
(* Bounds of the model *)

\* named segments, '.', '..' and empty segments in a requested path
MaxSegs == 2
\* collaborator invocations followed in one behaviour
MaxCalls == 1
\* changes a caller makes to the arrays of an object getSafetyConfig returned
MaxMutations == 1

----------------------------------------------------------------------------
(* JavaScript string primitives *)

\* String.prototype.startsWith
StartsWith(s, p) == Len(p) <= Len(s) /\ SubSeq(s, 1, Len(p)) = p

\* String.prototype.includes
Includes(s, p) ==
    \E i \in 1..(Len(s) - Len(p) + 1) : SubSeq(s, i, i + Len(p) - 1) = p

\* s.replace(/^p/, "") for a literal p
StripPrefix(s, p) == IF StartsWith(s, p) THEN SubSeq(s, Len(p) + 1, Len(s)) ELSE s

\* s.split("/")
Split(s) ==
    LET F[i \in 0..Len(s)] ==
            IF i = 0 THEN << <<>> >>
            ELSE LET prev == F[i - 1]
                 IN  IF s[i] = "/" THEN Append(prev, <<>>)
                     ELSE [prev EXCEPT ![Len(prev)] = Append(@, s[i])]
    IN  F[Len(s)]

\* segs.join("/")
Join(segs) ==
    LET F[i \in 0..Len(segs)] ==
            IF i = 0 THEN <<>>
            ELSE IF i = 1 THEN segs[1]
            ELSE F[i - 1] \o <<"/">> \o segs[i]
    IN  F[Len(segs)]

----------------------------------------------------------------------------
(* Strings of the model *)

Dot == <<".">>
DotDot == <<".", ".">>
DotSlash == <<".", "/">>
Slash == <<"/">>
Empty == <<>>

Etc == <<"e", "t", "c">>
Etcetera == <<"e", "t", "c", "e", "t", "e", "r", "a">>
Workspace == <<"w", "o", "r", "k", "s", "p", "a", "c", "e">>
Workspace2 == <<"w", "o", "r", "k", "s", "p", "a", "c", "e", "2">>

\* "/name/"
Dir(name) == Slash \o name \o Slash

----------------------------------------------------------------------------
(* Configuration *)

Operations ==
    {"readFile", "writeFile", "exists", "deleteFile", "deleteDir", "ensureDir",
     "readDir", "chmod"}

\* DEFAULT_AI_CONFIG of the lexical implementation
DEFAULT_AI_CONFIG ==
    [allowedPaths |-> <<>>,
     forbiddenPaths |->
        <<Dir(Etc), Dir(<<"v", "a", "r">>), Dir(<<"u", "s", "r">>),
          Dir(<<"s", "y", "s">>), Dir(<<"p", "r", "o", "c">>),
          Dir(<<"b", "i", "n">>), Dir(<<"s", "b", "i", "n">>)>>,
     maxDepth |-> 10,
     allowedOperations |->
        <<"readFile", "writeFile", "exists", "deleteFile", "ensureDir",
          "readDir", "deleteDir", "chmod">>,
     readOnly |-> FALSE]

\* process.cwd(), the default homePath of the homePath implementation
Cwd == Slash \o Workspace

\* a field the caller supplied
Has(c, f) == f \in DOMAIN c

\* a constructor that keeps the default maxDepth whatever the caller supplied
ConstructorKeepingMaxDepth(c) ==
    [allowedPaths |->
        IF Has(c, "allowedPaths") THEN c.allowedPaths
        ELSE DEFAULT_AI_CONFIG.allowedPaths,
     forbiddenPaths |->
        DEFAULT_AI_CONFIG.forbiddenPaths \o
            (IF Has(c, "forbiddenPaths") THEN c.forbiddenPaths ELSE <<>>),
     maxDepth |-> DEFAULT_AI_CONFIG.maxDepth,
     allowedOperations |->
        IF Has(c, "allowedOperations") THEN c.allowedOperations
        ELSE DEFAULT_AI_CONFIG.allowedOperations,
     readOnly |->
        IF Has(c, "readOnly") /\ c.readOnly THEN c.readOnly
        ELSE DEFAULT_AI_CONFIG.readOnly]

\* constructor of the lexical implementation: config.x || DEFAULT.x per field,
\* forbiddenPaths the built-in list followed by the caller's
Constructor(c) ==
    [allowedPaths |->
        IF Has(c, "allowedPaths") THEN c.allowedPaths
        ELSE DEFAULT_AI_CONFIG.allowedPaths,
     forbiddenPaths |->
        DEFAULT_AI_CONFIG.forbiddenPaths \o
            (IF Has(c, "forbiddenPaths") THEN c.forbiddenPaths ELSE <<>>),
     maxDepth |->
        IF Has(c, "maxDepth") /\ c.maxDepth # 0 THEN c.maxDepth
        ELSE DEFAULT_AI_CONFIG.maxDepth,
     allowedOperations |->
        IF Has(c, "allowedOperations") THEN c.allowedOperations
        ELSE DEFAULT_AI_CONFIG.allowedOperations,
     readOnly |->
        IF Has(c, "readOnly") /\ c.readOnly THEN c.readOnly
        ELSE DEFAULT_AI_CONFIG.readOnly]

\* constructor of the homePath implementation: the same merge plus homePath
ConstructorHome(c) ==
    [f \in DOMAIN DEFAULT_AI_CONFIG \cup {"homePath"} |->
        IF f = "homePath"
        THEN IF Has(c, "homePath") /\ c.homePath # Empty THEN c.homePath ELSE Cwd
        ELSE Constructor(c)[f]]

\* constructor of the legacy implementation: { ...DEFAULT_AI_CONFIG, ...config },
\* every field the caller supplied replaces the default one
ConstructorLegacy(c) ==
    [f \in DOMAIN DEFAULT_AI_CONFIG |-> IF Has(c, f) THEN c[f] ELSE DEFAULT_AI_CONFIG[f]]

----------------------------------------------------------------------------
(* Lexical implementation: normalizePath and validatePath *)

\* array.includes
InSeq(x, seq) == \E i \in 1..Len(seq) : seq[i] = x

\* array.some
Some(seq, Test(_)) == \E i \in 1..Len(seq) : Test(seq[i])

\* the for-loop of normalizePath: '..' pops (a no-op on an empty array),
\* any other segment is pushed
ResolveSegments(segments) ==
    LET F[i \in 0..Len(segments)] ==
            IF i = 0 THEN <<>>
            ELSE IF segments[i] = DotDot
                 THEN IF F[i - 1] = <<>> THEN <<>>
                      ELSE SubSeq(F[i - 1], 1, Len(F[i - 1]) - 1)
                 ELSE Append(F[i - 1], segments[i])
    IN  F[Len(segments)]

\* normalizePath with a filter that keeps '.' segments
normalizePathKeepDot(p) ==
    LET segments == SelectSeq(Split(p), LAMBDA s : s # Empty)
        result == Join(ResolveSegments(segments))
    IN  IF StartsWith(p, DotSlash) THEN DotSlash \o result ELSE result

normalizePath(p) ==
    LET segments == SelectSeq(Split(p), LAMBDA s : s # Empty /\ s # Dot)
        result == Join(ResolveSegments(segments))
    IN  IF StartsWith(p, DotSlash) THEN DotSlash \o result ELSE result

\* path.includes("../") || path.includes("..\\")
HasTraversal(p) == Includes(p, <<".", ".", "/">>) \/ Includes(p, <<".", ".", "\\">>)

\* first block of validatePath: the traversal check
TraversalDenied(c, p) ==
    LET normalizedPath == normalizePath(p)
    IN  /\ HasTraversal(p)
        /\ IF Len(c.allowedPaths) > 0
           THEN ~Some(c.allowedPaths,
                      LAMBDA allowed :
                          StartsWith(StripPrefix(normalizedPath, DotSlash),
                                     StripPrefix(normalizePath(allowed), DotSlash)))
           ELSE StartsWith(normalizedPath, <<".", ".", "/">>) \/ normalizedPath = DotDot

\* a forbidden-path test that compares the normalized path alone
ForbiddenMatchCanonicalOnly(forbidden, p) ==
    LET normalizedPath == normalizePath(p)
        cleanForbidden == StripPrefix(forbidden, Slash)
        cleanNormalized == StripPrefix(normalizedPath, DotSlash)
    IN  \/ StartsWith(cleanNormalized, cleanForbidden)
        \/ StartsWith(normalizedPath, forbidden)

\* one iteration of the forbidden-path loop of validatePath
ForbiddenMatch(forbidden, p) ==
    LET normalizedPath == normalizePath(p)
        cleanForbidden == StripPrefix(forbidden, Slash)
        cleanNormalized == StripPrefix(normalizedPath, DotSlash)
        cleanOriginal == StripPrefix(p, DotSlash)
    IN  \/ StartsWith(cleanNormalized, cleanForbidden)
        \/ StartsWith(cleanOriginal, cleanForbidden)
        \/ StartsWith(normalizedPath, forbidden)
        \/ StartsWith(p, forbidden)

ForbiddenDenied(c, p) == Some(c.forbiddenPaths, LAMBDA f : ForbiddenMatch(f, p))

\* the callback of allowedPaths.some in the allowlist block of validatePath
AllowedMatch(allowed, p) ==
    LET normalizedPath == normalizePath(p)
        normalizedAllowed == normalizePath(allowed)
        cleanPath == StripPrefix(normalizedPath, DotSlash)
        cleanAllowed == StripPrefix(normalizedAllowed, DotSlash)
    IN  \/ StartsWith(cleanPath, cleanAllowed)
        \/ StartsWith(normalizedPath, normalizedAllowed)
        \/ StartsWith(normalizedPath, allowed)
        \/ StartsWith(p, allowed)

AllowlistDenied(c, p) ==
    Len(c.allowedPaths) > 0 /\ ~Some(c.allowedPaths, LAMBDA a : AllowedMatch(a, p))

\* depth of validatePath: segments of the normalized path without its './'
PathDepth(p) ==
    LET cleanPath == StripPrefix(normalizePath(p), DotSlash)
    IN  IF cleanPath = Empty THEN 0
        ELSE Len(SelectSeq(Split(cleanPath), LAMBDA s : Len(s) > 0))

\* a depth check that already rejects a path of exactly maxDepth segments
DepthExceededOffByOne(c, p) == PathDepth(p) >= c.maxDepth

DepthExceeded(c, p) == PathDepth(p) > c.maxDepth

\* what a validation yields: the parts of the message of the Error it throws,
\* or OK when it returns normally
OK == <<>>
PathNotAllowed == <<"Path not allowed">>
PathTooDeep == <<"Path exceeds maximum depth">>

\* a validatePath that runs its depth check first
validatePathDepthFirst(c, p) ==
    IF DepthExceeded(c, p) THEN PathTooDeep
    ELSE IF TraversalDenied(c, p) THEN PathNotAllowed
    ELSE IF ForbiddenDenied(c, p) THEN PathNotAllowed
    ELSE IF AllowlistDenied(c, p) THEN PathNotAllowed
    ELSE OK

\* validatePath of the lexical implementation
validatePath(c, p) ==
    IF TraversalDenied(c, p) THEN PathNotAllowed
    ELSE IF ForbiddenDenied(c, p) THEN PathNotAllowed
    ELSE IF AllowlistDenied(c, p) THEN PathNotAllowed
    ELSE IF DepthExceeded(c, p) THEN PathTooDeep
    ELSE OK

----------------------------------------------------------------------------
(* homePath implementation: node:path resolve / relative, resolveFromHome,  *)
(* validatePath                                                            *)

IsAbsolute(p) == StartsWith(p, Slash)

\* segments of a normalized absolute path
AbsSegments(p) ==
    ResolveSegments(SelectSeq(Split(p), LAMBDA s : s # Empty /\ s # Dot))

\* node:path resolve(...) of one or two arguments: the rightmost absolute
\* argument and what follows it, made absolute with the working directory
\* when needed, '.' and '..' resolved, no trailing slash
resolve1(p) ==
    Slash \o Join(AbsSegments(IF IsAbsolute(p) THEN p ELSE Cwd \o Slash \o p))

resolve2(base, p) ==
    IF IsAbsolute(p) THEN resolve1(p) ELSE resolve1(base \o Slash \o p)

\* node:path relative(from, to) of two resolved paths
relative(from, to) ==
    LET fs == AbsSegments(from)
        ts == AbsSegments(to)
        Common[i \in 0..Len(fs)] ==
            IF i = 0 THEN 0
            ELSE IF Common[i - 1] = i - 1 /\ i <= Len(ts) /\ fs[i] = ts[i]
                 THEN i ELSE Common[i - 1]
        n == Common[Len(fs)]
    IN  Join([i \in 1..(Len(fs) - n) |-> DotDot] \o SubSeq(ts, n + 1, Len(ts)))

resolveFromHome(c, p) ==
    IF StartsWith(p, Slash) THEN resolve1(p) ELSE resolve2(c.homePath, p)

\* depth of the homePath validatePath: segments of relative(homePath, resolved)
HomeDepth(c, p) ==
    LET relativePath == relative(resolve1(c.homePath), resolveFromHome(c, p))
    IN  IF relativePath = Empty THEN 0
        ELSE Len(SelectSeq(Split(relativePath), LAMBDA s : Len(s) > 0))

\* validatePath of the homePath implementation
validatePathHome(c, p) ==
    LET resolvedPath == resolveFromHome(c, p)
        homePath == resolve1(c.homePath)
    IN  IF Some(c.forbiddenPaths,
                LAMBDA forbidden : StartsWith(resolvedPath, resolveFromHome(c, forbidden)))
        THEN PathNotAllowed
        ELSE IF /\ Len(c.allowedPaths) > 0
                /\ ~Some(c.allowedPaths,
                         LAMBDA allowed : StartsWith(resolvedPath, resolveFromHome(c, allowed)))
        THEN PathNotAllowed
        ELSE IF /\ Len(c.allowedPaths) = 0
                /\ ~StartsWith(p, Slash)
                /\ StartsWith(relative(homePath, resolvedPath), DotDot)
        THEN PathNotAllowed
        ELSE IF ~StartsWith(p, Slash) /\ HomeDepth(c, p) > c.maxDepth
        THEN PathTooDeep
        ELSE OK

----------------------------------------------------------------------------
(* Legacy implementation: normalizePath by regular expressions,            *)
(* validatePath, validateOperation                                         *)

\* s.replace(/\.\./g, ""): every '..' found scanning from the left is removed
RemoveDotDots(s) ==
    LET R[i \in 1..(Len(s) + 2)] ==
            IF i > Len(s) THEN <<>>
            ELSE IF i < Len(s) /\ s[i] = "." /\ s[i + 1] = "." THEN R[i + 2]
            ELSE <<s[i]>> \o R[i + 1]
    IN  R[1]

\* s.replace(/\/+/g, "/")
CollapseSlashes(s) ==
    LET R[i \in 0..Len(s)] ==
            IF i = 0 THEN <<>>
            ELSE IF s[i] = "/" /\ i > 1 /\ s[i - 1] = "/" THEN R[i - 1]
            ELSE Append(R[i - 1], s[i])
    IN  R[Len(s)]

\* s.replace(/\/$/, "")
StripTrailingSlash(s) ==
    IF Len(s) > 0 /\ s[Len(s)] = "/" THEN SubSeq(s, 1, Len(s) - 1) ELSE s

normalizePathLegacy(p) ==
    StripTrailingSlash(StripPrefix(CollapseSlashes(RemoveDotDots(p)), Slash))

\* depth of the legacy validatePath
PathDepthLegacy(p) == Len(SelectSeq(Split(normalizePathLegacy(p)), LAMBDA s : Len(s) > 0))

\* validatePath of the legacy implementation; the message of each Error in
\* the parts its template joins
validatePathLegacy(c, p) ==
    LET normalizedPath == normalizePathLegacy(p)
        Hit(entry) == \/ StartsWith(normalizedPath, StripPrefix(entry, Slash))
                      \/ StartsWith(p, entry)
    IN  IF HasTraversal(p)
        THEN <<"[AI-SAFETY] Path traversal attempt blocked: '", p, "'">>
        ELSE IF Some(c.forbiddenPaths, Hit)
        THEN LET k == CHOOSE k \in 1..Len(c.forbiddenPaths) :
                          /\ Hit(c.forbiddenPaths[k])
                          /\ \A j \in 1..(k - 1) : ~Hit(c.forbiddenPaths[j])
             IN  <<"[AI-SAFETY] Forbidden path access blocked: '", p, "' (matches: ",
                   c.forbiddenPaths[k], ")">>
        ELSE IF Len(c.allowedPaths) > 0 /\ ~Some(c.allowedPaths, Hit)
        THEN <<"[AI-SAFETY] Path not in allowlist: '", p, "'. Allowed: ", c.allowedPaths>>
        ELSE IF PathDepthLegacy(p) > c.maxDepth
        THEN <<"[AI-SAFETY] Path depth ", PathDepthLegacy(p), " exceeds maximum ",
               c.maxDepth, ": '", p, "'">>
        ELSE OK

\* validateOperation of the legacy implementation
validateOperationLegacy(c, operation) ==
    IF c.readOnly /\ operation \notin {"readFile", "exists", "readDir"}
    THEN <<"[AI-SAFETY] Write operation '", operation,
           "' blocked - filesystem is in read-only mode">>
    ELSE IF ~InSeq(operation, c.allowedOperations)
    THEN <<"[AI-SAFETY] Operation '", operation, "' not allowed. Permitted: ",
           c.allowedOperations>>
    ELSE OK

----------------------------------------------------------------------------
(* Inputs: the caller's configurations and requested paths *)

Tokens == {DotDot, Etc, Etcetera, Workspace, Workspace2}
Leads == {Empty, DotSlash, Slash}

SegLists == UNION {[1..k -> Tokens] : k \in 0..MaxSegs}

\* every spelling lead + segments joined by '/'
Paths == {lead \o Join(segs) : lead \in Leads, segs \in SegLists}

Contents == {"data", "more"}
Modes == {493}

\* configurations handed to the constructor of the lexical implementation
UserConfigs ==
    { [x \in {} |-> x],
      [allowedPaths |-> <<DotSlash \o Workspace \o Slash>>,
       forbiddenPaths |-> <<DotSlash \o Workspace \o Dir(Etc)>>,
       allowedOperations |-> <<"readFile", "writeFile">>,
       readOnly |-> FALSE,
       maxDepth |-> 2],
      [allowedPaths |-> <<DotSlash>>, forbiddenPaths |-> <<DotSlash \o Workspace \o Slash>>,
       maxDepth |-> 2, readOnly |-> TRUE],
      [allowedPaths |-> <<>>, forbiddenPaths |-> <<Dir(Etc)>>, maxDepth |-> 1,
       readOnly |-> TRUE,
       allowedOperations |-> <<"writeFile", "deleteFile", "readDir">>] }

\* configurations handed to the constructor of the homePath implementation
UserConfigsHome ==
    { [homePath |-> Slash \o Workspace],
      [homePath |-> Slash \o Workspace, allowedPaths |-> <<Etc \o Slash>>,
       maxDepth |-> 2],
      [homePath |-> Slash \o Workspace, allowedPaths |-> <<DotSlash>>],
      [homePath |-> Slash, maxDepth |-> 1] }

\* configurations handed to the constructor of the legacy implementation
UserConfigsLegacy ==
    { [x \in {} |-> x],
      [forbiddenPaths |-> <<Dir(Workspace)>>, maxDepth |-> 1],
      [forbiddenPaths |-> <<>>, allowedPaths |-> <<Workspace \o Slash>>,
       readOnly |-> TRUE, allowedOperations |-> <<"readFile", "deleteFile">>] }

\* what the collaborator answers a call with: a value or an error of its own
BaseOutcomes ==
    { [kind |-> "value", value |-> "base result"],
      [kind |-> "error", value |-> "ENOENT"] }

----------------------------------------------------------------------------
(* The implementations: the operation gate and the public methods *)

ReadOnlyOperations == {"readFile", "exists", "readDir"}

\* an operation gate without the read-only block
validateOperationNoReadOnly(c, operation) ==
    IF ~InSeq(operation, c.allowedOperations)
    THEN <<"Operation not allowed: ", operation>>
    ELSE OK

validateOperation(c, operation) ==
    IF c.readOnly /\ operation \notin ReadOnlyOperations
    THEN <<"Operation not allowed">>
    ELSE IF ~InSeq(operation, c.allowedOperations)
    THEN <<"Operation not allowed: ", operation>>
    ELSE OK

\* an isOperationAllowed in which read-only mode grants its three kinds
\* whatever allowedOperations lists
isOperationAllowedReadOnlyGrants(c, operation) ==
    IF c.readOnly THEN operation \in ReadOnlyOperations
    ELSE InSeq(operation, c.allowedOperations)

\* an isOperationAllowed that looks at allowedOperations alone
isOperationAllowedListOnly(c, operation) == InSeq(operation, c.allowedOperations)

isOperationAllowed(c, operation) ==
    IF c.readOnly /\ operation \notin ReadOnlyOperations THEN FALSE
    ELSE InSeq(operation, c.allowedOperations)

\* validateOperation of the implementation in use
OperationCheck(i, c, operation) ==
    IF i = "legacy" THEN validateOperationLegacy(c, operation)
    ELSE validateOperation(c, operation)

\* validatePath of the implementation in use
PathCheckOf(i, c, p) ==
    IF i = "home" THEN validatePathHome(c, p)
    ELSE IF i = "legacy" THEN validatePathLegacy(c, p)
    ELSE validatePath(c, p)

\* the wrapper instances of the model: implementation and effective policy
Instances ==
    {<<"lexical", Constructor(c)>> : c \in UserConfigs}
        \cup {<<"home", ConstructorHome(c)>> : c \in UserConfigsHome}
        \cup {<<"legacy", ConstructorLegacy(c)>> : c \in UserConfigsLegacy}

\* the path a method hands to the collaborator: the lexical and the legacy
\* implementation pass their argument on, the homePath one what validatePath
\* returned
ForwardedPathOf(i, c, p) == IF i = "home" THEN resolveFromHome(c, p) ELSE p

\* PathCheckOf and ForwardedPathOf over the model's instances and paths,
\* tabulated once: both are functions of (policy, path)
PathCheckTable ==
    [inst \in Instances |-> [p \in Paths |-> PathCheckOf(inst[1], inst[2], p)] @@ <<>>] @@ <<>>

ForwardedPathTable ==
    [inst \in Instances |-> [p \in Paths |-> ForwardedPathOf(inst[1], inst[2], p)] @@ <<>>] @@ <<>>

\* validatePath of implementation i under policy c: read from the table while
\* no caller has changed an array of the policy, computed otherwise
PathCheck(i, c, p) ==
    IF mutations = 0 THEN PathCheckTable[<<i, c>>][p]
    ELSE PathCheckOf(i, c, p)

\* the path handed to the collaborator, likewise
ForwardedPath(i, c, p) ==
    IF i = "home" /\ mutations = 0 THEN ForwardedPathTable[<<i, c>>][p]
    ELSE ForwardedPathOf(i, c, p)

\* an isPathAllowed whose catch lets the depth error through as true
isPathAllowedIgnoringDepth(i, c, p) == PathCheck(i, c, p) \in {OK, PathTooDeep}

\* isPathAllowed: validatePath in a try/catch
isPathAllowed(i, c, p) == PathCheck(i, c, p) = OK

\* the operation kind each public method is gated by, and the collaborator
\* method it delegates to
\* a gate that checks every method as a readFile
GateAllAsReadFile ==
    [m \in {"readFile", "writeFile", "exists", "deleteFile", "createDir", "ensureDir",
             "deleteDir", "chmod", "readDir"} |-> "readFile"]

Gate ==
    [readFile |-> "readFile", writeFile |-> "writeFile", exists |-> "exists",
     deleteFile |-> "deleteFile", createDir |-> "ensureDir", ensureDir |-> "ensureDir",
     deleteDir |-> "deleteDir", chmod |-> "chmod", readDir |-> "readDir"]

Delegate ==
    [readFile |-> "readFile", writeFile |-> "writeFile", exists |-> "exists",
     deleteFile |-> "deleteFile", createDir |-> "ensureDir", ensureDir |-> "ensureDir",
     deleteDir |-> "deleteDir", chmod |-> "chmod", readDir |-> "readDir"]

NoCall == [method |-> "", path |-> Empty, content |-> "", mode |-> 0]

\* a method body that reaches the collaborator before validatePath has run
MethodIoFirst(i, c, m, p, content, mode) ==
    LET opError == OperationCheck(i, c, Gate[m])
        pathError == PathCheck(i, c, p)
        call == [method |-> Delegate[m], path |-> ForwardedPath(i, c, p),
                 content |-> content, mode |-> mode]
    IN  IF opError # OK THEN [error |-> opError, call |-> NoCall]
        ELSE [error |-> pathError, call |-> call]

\* a method body that validates the path before the operation
MethodPathFirst(i, c, m, p, content, mode) ==
    LET opError == OperationCheck(i, c, Gate[m])
        pathError == PathCheck(i, c, p)
    IN  IF pathError # OK THEN [error |-> pathError, call |-> NoCall]
        ELSE IF opError # OK THEN [error |-> opError, call |-> NoCall]
        ELSE [error |-> OK,
              call |-> [method |-> Delegate[m], path |-> ForwardedPath(i, c, p),
                        content |-> content, mode |-> mode]]

\* body of a public method m(path, ...): validateOperation, then validatePath,
\* then the collaborator call; the error thrown (OK when none) and the
\* collaborator invocation made (NoCall when none)
Method(i, c, m, p, content, mode) ==
    LET opError == OperationCheck(i, c, Gate[m])
        pathError == PathCheck(i, c, p)
    IN  IF opError # OK THEN [error |-> opError, call |-> NoCall]
        ELSE IF pathError # OK THEN [error |-> pathError, call |-> NoCall]
        ELSE [error |-> OK,
              call |-> [method |-> Delegate[m], path |-> ForwardedPath(i, c, p),
                        content |-> content, mode |-> mode]]

\* getSafetyConfig: { ...this.config }, a record with the fields of the policy
getSafetyConfig(c) == [f \in DOMAIN c |-> c[f]]

\* a method that turns a failure of the collaborator into a denial of its own
SettleAsDenial(outcome) ==
    IF outcome.kind = "error" THEN [kind |-> "error", value |-> "Path not allowed"]
    ELSE outcome

\* 'return this.baseFileSystem.m(...)' in an async method: the method's
\* promise settles as the collaborator's does, same value or same error
Settle(outcome) == [kind |-> outcome.kind, value |-> outcome.value]

----------------------------------------------------------------------------
(* The state machine: one wrapper instance, one requested path, and the     *)
(* collaborator seen through the invocations it receives and the outcomes   *)
(* it answers with                                                          *)

NoOutcome == [kind |-> "none", value |-> ""]

NoResult ==
    [method |-> "", arg |-> "", content |-> "", mode |-> 0, error |-> OK,
     answer |-> "", call |-> NoCall, base |-> NoOutcome, result |-> NoOutcome]

TypeOK ==
    /\ impl \in {"lexical", "home", "legacy"}
    /\ path \in Paths
    /\ baseCalls \in 0..MaxCalls
    /\ mutations \in 0..MaxMutations
    /\ last.method \in DOMAIN Gate \cup {"", "isPathAllowed", "isOperationAllowed", "getSafetyConfig"}

InitLexical ==
    /\ impl = "lexical"
    /\ given \in UserConfigs
    /\ config = Constructor(given)
    /\ path \in Paths
    /\ last = NoResult
    /\ baseCalls = 0
    /\ mutations = 0

InitHome ==
    /\ impl = "home"
    /\ given \in UserConfigsHome
    /\ config = ConstructorHome(given)
    /\ path \in Paths
    /\ last = NoResult
    /\ baseCalls = 0
    /\ mutations = 0

InitLegacy ==
    /\ impl = "legacy"
    /\ given \in UserConfigsLegacy
    /\ config = ConstructorLegacy(given)
    /\ path \in Paths
    /\ last = NoResult
    /\ baseCalls = 0
    /\ mutations = 0

Init == InitLexical \/ InitHome

\* a call of public method m on the requested path; the collaborator is
\* invoked when the method body reaches its last line, answers with an
\* outcome of its own, and the method settles with it
Invoke(m, content, mode) ==
    LET r == Method(impl, config, m, path, content, mode)
    IN  /\ r.call = NoCall \/ baseCalls < MaxCalls
        /\ \E outcome \in IF r.call = NoCall THEN {NoOutcome} ELSE BaseOutcomes :
               last' = [method |-> m, arg |-> "", content |-> content, mode |-> mode,
                        error |-> r.error,
                        answer |-> IF r.error = OK THEN "delegated" ELSE "thrown",
                        call |-> r.call,
                        base |-> outcome,
                        result |-> IF r.call = NoCall THEN NoOutcome ELSE Settle(outcome)]
        /\ baseCalls' = IF r.call = NoCall THEN baseCalls ELSE baseCalls + 1
        /\ UNCHANGED <<impl, given, config, path, mutations>>

ReadFile == Invoke("readFile", "", 0)
WriteFile == \E content \in Contents : Invoke("writeFile", content, 0)
Exists == Invoke("exists", "", 0)
DeleteFile == Invoke("deleteFile", "", 0)
CreateDir == Invoke("createDir", "", 0)
EnsureDir == Invoke("ensureDir", "", 0)
DeleteDir == Invoke("deleteDir", "", 0)
Chmod == \E mode \in Modes : Invoke("chmod", "", mode)
ReadDir == Invoke("readDir", "", 0)

IsPathAllowed ==
    /\ last' = [NoResult EXCEPT !.method = "isPathAllowed",
                                !.answer = IF isPathAllowed(impl, config, path)
                                           THEN "true" ELSE "false"]
    /\ UNCHANGED <<impl, given, config, path, baseCalls, mutations>>

IsOperationAllowed ==
    \E operation \in Operations :
        /\ last' = [NoResult EXCEPT !.method = "isOperationAllowed",
                                    !.arg = operation,
                                    !.answer = IF isOperationAllowed(config, operation)
                                               THEN "true" ELSE "false"]
        /\ UNCHANGED <<impl, given, config, path, baseCalls, mutations>>

\* a getSafetyConfig that also resets the policy to the defaults
GetSafetyConfigResetting ==
    /\ last' = [NoResult EXCEPT !.method = "getSafetyConfig",
                                !.answer = "returned",
                                !.result = [kind |-> "config",
                                            value |-> getSafetyConfig(config)]]
    /\ config' = IF impl = "home" THEN ConstructorHome([homePath |-> Slash \o Workspace])
                 ELSE IF impl = "legacy" THEN ConstructorLegacy([x \in {} |-> x])
                 ELSE Constructor([x \in {} |-> x])
    /\ UNCHANGED <<impl, given, path, baseCalls, mutations>>

GetSafetyConfig ==
    /\ last' = [NoResult EXCEPT !.method = "getSafetyConfig",
                                !.answer = "returned",
                                !.result = [kind |-> "config",
                                            value |-> getSafetyConfig(config)]]
    /\ UNCHANGED <<impl, given, config, path, baseCalls, mutations>>

Next ==
    \/ ReadFile
    \/ WriteFile
    \/ Exists
    \/ DeleteFile
    \/ CreateDir
    \/ EnsureDir
    \/ DeleteDir
    \/ Chmod
    \/ ReadDir
    \/ IsPathAllowed
    \/ IsOperationAllowed
    \/ GetSafetyConfig

Spec == Init /\ [][Next]_vars

\* the lexical implementation alone
SpecLexical == InitLexical /\ [][Next]_vars

\* the homePath implementation alone
SpecHome == InitHome /\ [][Next]_vars

\* the legacy implementation alone
SpecLegacy == InitLegacy /\ [][Next]_vars

\* the three implementations
SpecAll == (Init \/ InitLegacy) /\ [][Next]_vars

----------------------------------------------------------------------------
(* Array identity.  getSafetyConfig returns { ...this.config }: a new       *)
(* object whose forbiddenPaths, allowedPaths and allowedOperations are the  *)
(* arrays the wrapper itself holds.  The constructors store                 *)
(* DEFAULT_AI_CONFIG.allowedPaths and DEFAULT_AI_CONFIG.allowedOperations   *)
(* (the legacy one every array of DEFAULT_AI_CONFIG) when the caller gives  *)
(* none.  An array held under several names is one cell: it is kept once,   *)
(* in config, and the other names are read from there.                      *)

ArrayFields == {"allowedPaths", "forbiddenPaths", "allowedOperations"}

\* the fields of the wrapper that are arrays of the module-level
\* DEFAULT_AI_CONFIG rather than arrays of its own or of its caller
SharedWithModule(i, g) ==
    IF i = "legacy" THEN {f \in ArrayFields : ~Has(g, f)}
    ELSE {f \in {"allowedPaths", "allowedOperations"} : ~Has(g, f)}

\* the arrays of DEFAULT_AI_CONFIG as they are now
ModuleDefaults ==
    [f \in ArrayFields |->
        IF f \in SharedWithModule(impl, given) THEN config[f] ELSE DEFAULT_AI_CONFIG[f]]

\* the policy of a second wrapper of the same class constructed with no
\* configuration, before or after the calls on the first one
OtherInstance ==
    [allowedPaths |-> ModuleDefaults.allowedPaths,
     forbiddenPaths |->
        IF impl = "legacy" THEN ModuleDefaults.forbiddenPaths
        ELSE DEFAULT_AI_CONFIG.forbiddenPaths \o <<>>,
     maxDepth |-> DEFAULT_AI_CONFIG.maxDepth,
     allowedOperations |-> ModuleDefaults.allowedOperations,
     readOnly |-> DEFAULT_AI_CONFIG.readOnly]
        @@ (IF impl = "home" THEN [homePath |-> Cwd] ELSE <<>>)

\* what a caller does to an array of the object it was handed
Mutations ==
    { [field |-> "forbiddenPaths", kind |-> "truncate", item |-> Empty],
      [field |-> "forbiddenPaths", kind |-> "push", item |-> DotSlash \o Workspace \o Slash],
      [field |-> "allowedPaths", kind |-> "truncate", item |-> Empty],
      [field |-> "allowedPaths", kind |-> "push", item |-> DotSlash \o Workspace \o Slash],
      [field |-> "allowedOperations", kind |-> "truncate", item |-> Empty],
      [field |-> "allowedOperations", kind |-> "push", item |-> "deleteFile"] }

\* array.length = 0, array.push(item)
Mutate(array, m) == IF m.kind = "truncate" THEN <<>> ELSE Append(array, m.item)

\* the requested paths followed through the mutations
AliasPaths ==
    Paths \cap { Slash \o Etc, Slash \o Etc \o Slash \o Workspace, Workspace,
                 Slash \o Workspace, DotSlash \o Workspace \o Slash \o Etc,
                 Workspace2 }

InitAlias == Init /\ path \in AliasPaths

\* the caller changes an array of the object getSafetyConfig has just
\* returned; the array is the wrapper's own
MutateReturned ==
    /\ last.method = "getSafetyConfig"
    /\ mutations < MaxMutations
    /\ \E m \in Mutations :
           config' = [config EXCEPT ![m.field] = Mutate(last.result.value[m.field], m)]
    /\ mutations' = mutations + 1
    /\ last' = NoResult
    /\ UNCHANGED <<impl, given, path, baseCalls>>

NextAlias == Next \/ MutateReturned

\* the two implementations, with a caller that changes what it was handed
SpecAlias == InitAlias /\ [][NextAlias]_vars

----------------------------------------------------------------------------
(* Vocabulary of the properties *)

\* the segment sequence a path denotes: empty and '.' segments dropped, '..'
\* resolved against the segments before it
CanonicalSegments(p) ==
    ResolveSegments(SelectSeq(Split(p), LAMBDA s : s # Empty /\ s # Dot))

\* a is a segment-by-segment prefix of b
SegPrefix(a, b) == Len(a) <= Len(b) /\ SubSeq(b, 1, Len(a)) = a

\* path p lies under policy entry e, segment-wise, in the lexical implementation
Under(e, p) == SegPrefix(CanonicalSegments(e), CanonicalSegments(p))

\* the same in the homePath implementation, on the resolved locations
UnderHome(c, e, p) ==
    SegPrefix(AbsSegments(resolveFromHome(c, e)), AbsSegments(resolveFromHome(c, p)))

UnderAllowed(c, p) == \E k \in 1..Len(c.allowedPaths) : Under(c.allowedPaths[k], p)
UnderForbidden(c, p) == \E k \in 1..Len(c.forbiddenPaths) : Under(c.forbiddenPaths[k], p)

\* path p lies strictly inside the directory that entry e names
Inside(e, p) == Under(e, p) /\ Len(CanonicalSegments(p)) > Len(CanonicalSegments(e))
InsideForbidden(c, p) == \E k \in 1..Len(c.forbiddenPaths) : Inside(c.forbiddenPaths[k], p)

\* the last call was public filesystem method whose operation kind passed the gate
GatedCall == last.method \in DOMAIN Gate /\ validateOperation(config, Gate[last.method]) = OK

\* the last call was isPathAllowed
AskedPath == last.method = "isPathAllowed"

\* the last call denied the path with 'Path not allowed'
PathDenied ==
    /\ AskedPath => last.answer = "false"
    /\ GatedCall => last.error = PathNotAllowed /\ last.call = NoCall

----------------------------------------------------------------------------
(* C1 *)

\* C1: denylist precedence in the lexical implementation: whenever the
\* requested path lies under an allowed entry and inside a forbidden
\* directory, isPathAllowed answers false and every gated method rejects with
\* 'Path not allowed'
C1_DenylistPrecedence ==
    (impl = "lexical" /\ UnderAllowed(config, path) /\ InsideForbidden(config, path))
        => PathDenied

----------------------------------------------------------------------------
(* C2 *)

\* C2: no collaborator invocation before authorization: a call of a public
\* method whose operation gate or path check denies leaves the collaborator
\* untouched, and a call that reaches the collaborator passed both checks
C2_NoIoBeforeAuthorization ==
    [][ /\ (/\ last'.method \in DOMAIN Gate
            /\ \/ validateOperation(config, Gate[last'.method]) # OK
               \/ PathCheck(impl, config, path) # OK)
           => (baseCalls' = baseCalls /\ last'.call = NoCall /\ last'.error # OK)
        /\ baseCalls' # baseCalls
           => /\ last'.method \in DOMAIN Gate
              /\ validateOperation(config, Gate[last'.method]) = OK
              /\ PathCheck(impl, config, path) = OK
              /\ baseCalls' = baseCalls + 1 ]_vars

\* a denied call made after the collaborator had already been reached
C2_Witness ==
    last.method \in DOMAIN Gate /\ last.error # OK /\ last.call = NoCall /\ baseCalls > 0

----------------------------------------------------------------------------
(* C3 *)

\* C3: allowlist containment in the lexical implementation: with a non-empty
\* allowlist, a path that isPathAllowed admits, or that a gated method
\* forwards, lies under some allowed entry segment-wise
C3_AllowlistContainment ==
    (impl = "lexical" /\ Len(config.allowedPaths) > 0 /\ ~UnderAllowed(config, path))
        => PathDenied

----------------------------------------------------------------------------
(* C4 *)

\* the '..' segments of p climb above the place p starts from
ClimbsAboveRoot(p) ==
    LET segments == SelectSeq(Split(p), LAMBDA s : s # Empty /\ s # Dot)
        Depth[i \in 0..Len(segments)] ==
            IF i = 0 THEN 0
            ELSE IF segments[i] = DotDot THEN Depth[i - 1] - 1 ELSE Depth[i - 1] + 1
    IN  \E i \in 1..Len(segments) : Depth[i] < 0

\* C4: traversal rejection under the default configuration of the lexical
\* implementation: a relative path that climbs above its root is denied with
\* 'Path not allowed'
C4_TraversalRejected ==
    (/\ impl = "lexical"
     /\ config = Constructor([x \in {} |-> x])
     /\ ~IsAbsolute(path)
     /\ ClimbsAboveRoot(path))
        => PathDenied

----------------------------------------------------------------------------
(* C5 *)

\* the canonical segments of policy entry or path x as implementation i
\* compares them
SegmentsOf(i, c, x) ==
    IF i = "home" THEN AbsSegments(resolveFromHome(c, x)) ELSE CanonicalSegments(x)

\* ps is in a sibling of the directory es: the same segments up to the last
\* one of es, and there a longer name that begins with the characters of
\* the last segment of es
Sibling(es, ps) ==
    /\ Len(es) >= 1
    /\ Len(ps) >= Len(es)
    /\ SubSeq(ps, 1, Len(es) - 1) = SubSeq(es, 1, Len(es) - 1)
    /\ StartsWith(ps[Len(es)], es[Len(es)])
    /\ ps[Len(es)] # es[Len(es)]

\* some allowed entry is a segment-by-segment prefix of the path
AdmittedSegmentwise(i, c, p) ==
    \E k \in 1..Len(c.allowedPaths) :
        SegPrefix(SegmentsOf(i, c, c.allowedPaths[k]), SegmentsOf(i, c, p))

\* C5: allowlist matching is segment-wise in both implementations: a path in
\* a sibling of an allowed directory (a name that only begins with the same
\* characters), which no allowed entry admits segment-wise, is denied
C5_AllowlistSegmentwise ==
    (/\ Len(config.allowedPaths) > 0
     /\ ~AdmittedSegmentwise(impl, config, path)
     /\ \E k \in 1..Len(config.allowedPaths) :
            Sibling(SegmentsOf(impl, config, config.allowedPaths[k]),
                    SegmentsOf(impl, config, path)))
        => PathDenied

----------------------------------------------------------------------------
(* C6 *)

\* some forbidden entry is a segment-by-segment prefix of the path; in the
\* lexical implementation, which keeps no root, an entry and a path that are
\* both absolute or both relative
ForbiddenSegmentwise(i, c, p) ==
    \E k \in 1..Len(c.forbiddenPaths) :
        /\ i = "home" \/ IsAbsolute(c.forbiddenPaths[k]) = IsAbsolute(p)
        /\ SegPrefix(SegmentsOf(i, c, c.forbiddenPaths[k]), SegmentsOf(i, c, p))

\* the last call let the path through
PathPassed ==
    /\ AskedPath => last.answer = "true"
    /\ GatedCall => last.error = OK

\* C6: denylist matching is segment-wise in both implementations: (b) a path
\* that a forbidden entry is a segment prefix of, the forbidden directory
\* itself included, is denied; (a) an absolute path that no forbidden entry is
\* a segment prefix of is not denied by the denylist: with an empty allowlist
\* and a depth within maxDepth it passes
C6_DenylistSegmentwise ==
    /\ ForbiddenSegmentwise(impl, config, path) => PathDenied
    /\ (/\ ~ForbiddenSegmentwise(impl, config, path)
        /\ IsAbsolute(path)
        /\ Len(config.allowedPaths) = 0
        /\ Len(CanonicalSegments(path)) <= config.maxDepth)
           => PathPassed

----------------------------------------------------------------------------
(* C7, C8 *)

\* names a caller may spell an 'x/..' pair with
PairNames == {Etc, Workspace2}

\* the segments of p with the segments ins put before its j-th segment
InsertAt(p, j, ins) ==
    LET segs == Split(p)
    IN  Join(SubSeq(segs, 1, j - 1) \o ins \o SubSeq(segs, j, Len(segs)))

\* the spellings of p with one './' segment, one redundant '/' or one 'x/..'
\* pair inserted where it does not change what p denotes: not in front of
\* the '/' of an absolute path, and no separator in front of a relative one
Insertions(p) ==
    IF p = Empty THEN {}
    ELSE LET n == Len(Split(p))
             first == IF IsAbsolute(p) THEN 2 ELSE 1
         IN  {InsertAt(p, j, <<Dot>>) : j \in first..(n + 1)}
                 \cup {InsertAt(p, j, <<x, DotDot>>) : j \in first..(n + 1), x \in PairNames}
                 \cup {InsertAt(p, j, <<Empty>>) : j \in 2..n}

\* C7: canonicalization equivalence of decisions in the lexical
\* implementation: every respelling of the requested path by an inserted
\* './' or 'x/..' pair gets the decision of the requested path, the same
\* error when denied
C7_DecisionEquivalence ==
    (impl = "lexical" /\ AskedPath)
        => \A q \in Insertions(path) :
               /\ validatePath(config, q) = PathCheck(impl, config, path)
               /\ (validatePath(config, q) = OK) <=> (last.answer = "true")

\* C8 as stated: every respelling normalizes to the very same string
C8_NormalizeEqual ==
    (AskedPath /\ impl = "lexical") => \A q \in Insertions(path) : normalizePath(q) = normalizePath(path)

\* the normalized string without its display-only leading './'
Comparable(p) == StripPrefix(normalizePath(p), DotSlash)

\* C8 amended: every respelling of a path by an inserted './', redundant '/'
\* or 'x/..' pair normalizes to the same string up to the leading './' that
\* normalizePath keeps for paths written with one; the normalized string has
\* no empty, '.' or '..' segment left, a '..' with nothing to pop being dropped
C8_NormalizeEquivalence ==
    (AskedPath /\ impl = "lexical") =>
        /\ \A q \in Insertions(path) : Comparable(q) = Comparable(path)
        /\ Comparable(path) # Empty =>
               \A k \in 1..Len(Split(Comparable(path))) :
                   Split(Comparable(path))[k] \notin {Empty, Dot, DotDot}

\* a requested path whose '..' has nothing to pop and that has respellings
C8_Witness ==
    /\ AskedPath
    /\ impl = "lexical"
    /\ ClimbsAboveRoot(path)
    /\ \E q \in Insertions(path) : q # path /\ Comparable(q) = Comparable(path)
    /\ Comparable(path) # Empty

----------------------------------------------------------------------------
(* C9 *)

\* the last call rejected the path as too deep
PathTooDeepResult ==
    /\ AskedPath => last.answer = "false"
    /\ GatedCall => last.error = PathTooDeep /\ last.call = NoCall

\* C9: the depth boundary of the lexical implementation is exact and counted
\* on the canonical path: a path that passes the traversal, denylist and
\* allowlist checks passes when its canonical form has exactly maxDepth
\* segments and is rejected with 'Path exceeds maximum depth' when it has
\* maxDepth + 1 or more
C9_DepthBoundary ==
    (/\ impl = "lexical"
     /\ AskedPath \/ GatedCall
     /\ ~TraversalDenied(config, path)
     /\ ~ForbiddenDenied(config, path)
     /\ ~AllowlistDenied(config, path))
        => /\ Len(CanonicalSegments(path)) = config.maxDepth => PathPassed
           /\ Len(CanonicalSegments(path)) >= config.maxDepth + 1 => PathTooDeepResult

\* a gated method rejected a path of exactly maxDepth + 1 canonical segments
C9_Witness ==
    /\ impl = "lexical"
    /\ GatedCall
    /\ last.error = PathTooDeep
    /\ Len(CanonicalSegments(path)) = config.maxDepth + 1

----------------------------------------------------------------------------
(* C10 *)

\* C10: read-only narrowing: with readOnly set, for every operation kind
\* outside readFile, exists and readDir, isOperationAllowed answers false and
\* the method of that kind rejects with 'Operation not allowed' without
\* reaching the collaborator, whatever allowedOperations lists
C10_ReadOnlyNarrowing ==
    config.readOnly =>
        /\ (last.method = "isOperationAllowed" /\ last.arg \notin ReadOnlyOperations)
               => last.answer = "false"
        /\ (last.method \in DOMAIN Gate /\ Gate[last.method] \notin ReadOnlyOperations)
               => (/\ last.error # OK
                   /\ last.error[1] = "Operation not allowed"
                   /\ last.call = NoCall)

\* writeFile rejected in read-only mode although allowedOperations lists it
C10_Witness ==
    /\ config.readOnly
    /\ InSeq("writeFile", config.allowedOperations)
    /\ last.method = "writeFile"
    /\ last.error = <<"Operation not allowed">>

----------------------------------------------------------------------------
(* C11 *)

\* the last call was isOperationAllowed
AskedOperation == last.method = "isOperationAllowed"

\* C11 as stated: with readOnly set, isOperationAllowed answers true for
\* readFile, exists and readDir whatever allowedOperations lists
C11_ReadOnlySubsetAlways ==
    (config.readOnly /\ AskedOperation /\ last.arg \in ReadOnlyOperations)
        => last.answer = "true"

\* C11 amended: with readOnly set, the read-only subset bounds what is
\* permitted and allowedOperations still applies: isOperationAllowed answers
\* true exactly for the kinds among readFile, exists and readDir that
\* allowedOperations lists, and a method of a read-only kind that
\* allowedOperations omits is rejected without reaching the collaborator
C11_ReadOnlySubsetWithinAllowed ==
    config.readOnly =>
        /\ AskedOperation =>
               ((last.answer = "true") <=>
                    (/\ last.arg \in {"readFile", "exists", "readDir"}
                     /\ InSeq(last.arg, config.allowedOperations)))
        /\ (/\ last.method \in DOMAIN Gate
            /\ Gate[last.method] \in {"readFile", "exists", "readDir"}
            /\ ~InSeq(Gate[last.method], config.allowedOperations))
               => (last.answer = "thrown" /\ last.call = NoCall)

\* readFile asked in read-only mode under an allowedOperations that omits it
C11_Witness ==
    /\ config.readOnly
    /\ AskedOperation
    /\ last.arg = "readFile"
    /\ ~InSeq("readFile", config.allowedOperations)
    /\ last.answer = "false"

----------------------------------------------------------------------------
(* C12 *)

\* the seven built-in forbidden entries
BuiltInForbidden ==
    {<<"/", "e", "t", "c", "/">>, <<"/", "v", "a", "r", "/">>,
     <<"/", "u", "s", "r", "/">>, <<"/", "s", "y", "s", "/">>,
     <<"/", "p", "r", "o", "c", "/">>, <<"/", "b", "i", "n", "/">>,
     <<"/", "s", "b", "i", "n", "/">>}

\* the last call was getSafetyConfig
AskedConfig == last.method = "getSafetyConfig"

\* C12: the built-in forbidden baseline cannot be removed: in every
\* implementation, whatever forbiddenPaths the caller supplied, the
\* forbiddenPaths that getSafetyConfig returns holds the seven built-in
\* entries and the caller's entries
C12_BaselineKept ==
    AskedConfig =>
        /\ \A e \in BuiltInForbidden : InSeq(e, last.result.value.forbiddenPaths)
        /\ Has(given, "forbiddenPaths") =>
               \A k \in 1..Len(given.forbiddenPaths) :
                   InSeq(given.forbiddenPaths[k], last.result.value.forbiddenPaths)

----------------------------------------------------------------------------
(* C13 *)

\* a relative path whose '..' segments climb above the root it starts from
EscapesAboveRoot(p) == ~IsAbsolute(p) /\ ClimbsAboveRoot(p)

\* C13: empty-allowlist semantics of the lexical implementation: with
\* allowedPaths empty, isPathAllowed answers true exactly for the paths that
\* match no forbidden entry (in any of the forms the denylist loop compares),
\* do not escape above the root and have a depth of at most maxDepth
C13_EmptyAllowlist ==
    (impl = "lexical" /\ AskedPath /\ Len(config.allowedPaths) = 0)
        => ((last.answer = "true") <=>
                (/\ ~ForbiddenDenied(config, path)
                 /\ ~EscapesAboveRoot(path)
                 /\ Len(CanonicalSegments(path)) <= config.maxDepth))

----------------------------------------------------------------------------
(* C14 *)

\* the last call was a public filesystem method that the operation gate rejected
GateRejected ==
    /\ last.method \in DOMAIN Gate
    /\ OperationCheck(impl, config, Gate[last.method]) # OK

\* C14: every operation-not-permitted denial carries the operation name:
\* the message of the error a gate-rejected method throws names the operation
\* kind it was gated by, in read-only mode as well as when the kind is
\* missing from allowedOperations
C14_DenialNamesOperation ==
    GateRejected =>
        /\ last.error[1] \in {"Operation not allowed", "Operation not allowed: "}
        /\ \E k \in 1..Len(last.error) : last.error[k] = Gate[last.method]

----------------------------------------------------------------------------
(* C15 *)

\* the operation gate as the policy states it
PolicyPermits(c, operation) ==
    /\ ~c.readOnly \/ operation \in {"readFile", "exists", "readDir"}
    /\ \E k \in 1..Len(c.allowedOperations) : c.allowedOperations[k] = operation

\* C15: isOperationAllowed agrees with the operation gate, in the three
\* implementations: isOperationAllowed(op) answers true exactly when
\* validateOperation(op) does not throw, which is exactly when (readOnly is
\* false or op is a read-only kind) and allowedOperations lists op; a public
\* method throws the error of the gate exactly when the policy does not
\* permit its kind
C15_OperationAgreement ==
    /\ AskedOperation =>
           /\ (last.answer = "true") <=> (OperationCheck(impl, config, last.arg) = OK)
           /\ (last.answer = "true") <=> PolicyPermits(config, last.arg)
           /\ last.answer \in {"true", "false"}
    /\ last.method \in DOMAIN Gate =>
           ((last.error # OK /\ last.error = OperationCheck(impl, config, Gate[last.method]))
                <=> ~PolicyPermits(config, Gate[last.method]))

\* writeFile asked in read-only mode under an allowedOperations that lists it
C15_Witness ==
    /\ AskedOperation
    /\ config.readOnly
    /\ last.arg = "writeFile"
    /\ PolicyPermits([config EXCEPT !.readOnly = FALSE], "writeFile")
    /\ last.answer = "false"
    /\ OperationCheck(impl, config, "writeFile") # OK

----------------------------------------------------------------------------
(* C16 *)

\* the public methods whose operation kind passes the gate of policy c
GatePassing(i, c) == {m \in DOMAIN Gate : OperationCheck(i, c, Gate[m]) = OK}

\* C16: isPathAllowed agrees with enforcement: it answers true exactly when
\* every method whose kind passes the operation gate, called on the same
\* path, reaches the collaborator, and false exactly when such a method is
\* rejected with 'Path not allowed' or 'Path exceeds maximum depth';
\* isPathAllowed itself throws nothing and makes no collaborator call
C16_PathAgreement ==
    /\ AskedPath =>
           /\ last.answer \in {"true", "false"}
           /\ last.error = OK /\ last.call = NoCall /\ last.base = NoOutcome
           /\ (last.answer = "true") <=>
                  (\A m \in GatePassing(impl, config) :
                       LET r == Method(impl, config, m, path, "", 0)
                       IN  r.error = OK /\ r.call # NoCall)
           /\ (last.answer = "false") <=>
                  (\A m \in GatePassing(impl, config) :
                       LET r == Method(impl, config, m, path, "", 0)
                       IN  /\ r.call = NoCall
                           /\ r.error \in {<<"Path not allowed">>,
                                            <<"Path exceeds maximum depth">>})
    /\ (last.method \in GatePassing(impl, config)) =>
           /\ (last.answer = "delegated" /\ last.call # NoCall)
                  <=> (PathCheck(impl, config, path) = OK)
           /\ (last.answer = "thrown")
                  <=> (last.error \in {<<"Path not allowed">>,
                                        <<"Path exceeds maximum depth">>})

\* isPathAllowed answered false for a path that a method passing the gate
\* rejects as too deep
C16_Witness ==
    /\ AskedPath
    /\ last.answer = "false"
    /\ GatePassing(impl, config) # {}
    /\ Method(impl, config, "readDir", path, "", 0).error = <<"Path exceeds maximum depth">>

----------------------------------------------------------------------------
(* C17 *)

\* the strings that stand for the canonical form of p: in the homePath
\* implementation the resolved location; in the others the normalized path,
\* with or without its leading './', or the canonical segments joined, after
\* a '/' when p is absolute
CanonicalForms(i, c, p) ==
    IF i = "home" THEN {resolveFromHome(c, p)}
    ELSE {normalizePath(p), Comparable(p),
          (IF IsAbsolute(p) THEN Slash ELSE Empty) \o Join(CanonicalSegments(p))}

\* C17: on allow, the collaborator receives the canonical path, not the raw
\* input: the path of a delegated call is a canonical form of the requested
\* path, and every allowed respelling of the requested path would be
\* forwarded as the same path
C17_CanonicalForwarded ==
    (last.method \in DOMAIN Gate /\ last.answer = "delegated") =>
        /\ last.call.path \in CanonicalForms(impl, config, path)
        /\ \A q \in Insertions(path) :
               PathCheckOf(impl, config, q) = OK
                   => ForwardedPathOf(impl, config, q) = last.call.path

----------------------------------------------------------------------------
(* C18 *)

\* the built-in forbidden entries in their order
BuiltInList ==
    <<Dir(<<"e", "t", "c">>), Dir(<<"v", "a", "r">>), Dir(<<"u", "s", "r">>),
      Dir(<<"s", "y", "s">>), Dir(<<"p", "r", "o", "c">>), Dir(<<"b", "i", "n">>),
      Dir(<<"s", "b", "i", "n">>)>>

\* the value of option f that the policy documents for caller configuration g
Documented(g, f) ==
    IF f \in DOMAIN g THEN g[f]
    ELSE CASE f = "allowedPaths" -> <<>>
           [] f = "maxDepth" -> 10
           [] f = "readOnly" -> FALSE
           [] f = "allowedOperations" ->
                  <<"readFile", "writeFile", "exists", "deleteFile", "ensureDir",
                    "readDir", "deleteDir", "chmod">>

\* C18: configuration merge in the implementations of index.ts:
\* getSafetyConfig returns, for allowedPaths, maxDepth (a positive integer),
\* allowedOperations and readOnly, the caller's value when supplied and the
\* default otherwise, and for forbiddenPaths the built-in list followed by
\* the caller's entries; with no configuration isOperationAllowed answers
\* true for each of the eight kinds
C18_ConfigurationMerge ==
    /\ AskedConfig =>
           LET merged == last.result.value
           IN  /\ \A f \in {"allowedPaths", "maxDepth", "allowedOperations", "readOnly"} :
                      merged[f] = Documented(given, f)
               /\ merged.maxDepth \in Nat \ {0}
               /\ merged.forbiddenPaths =
                      BuiltInList \o (IF "forbiddenPaths" \in DOMAIN given
                                      THEN given.forbiddenPaths ELSE <<>>)
    /\ (AskedOperation /\ DOMAIN given \subseteq {"homePath"}) =>
           (last.arg \in Operations /\ last.answer = "true")

\* getSafetyConfig asked of a wrapper built with forbiddenPaths and maxDepth
\* but no allowedOperations
C18_Witness ==
    /\ AskedConfig
    /\ {"forbiddenPaths", "maxDepth"} \subseteq DOMAIN given
    /\ "allowedOperations" \notin DOMAIN given
    /\ Len(last.result.value.forbiddenPaths) = 8
    /\ Len(last.result.value.allowedOperations) = 8

----------------------------------------------------------------------------
(* C19 *)

\* the policy the constructor of the implementation in use built from the
\* caller's configuration
Built ==
    IF impl = "home" THEN ConstructorHome(given)
    ELSE IF impl = "legacy" THEN ConstructorLegacy(given)
    ELSE Constructor(given)

\* paths whose decision is compared with the one of the fresh wrapper,
\* besides the requested one
ProbePaths == {Slash \o Etc, Workspace, DotSlash \o Workspace \o Slash \o Etc, DotDot}

\* C19: the wrapper is stateless across calls, in the three implementations:
\* after every sequence of public method calls (the nine filesystem
\* operations, allowed, denied or failed inside the collaborator,
\* isPathAllowed, isOperationAllowed, getSafetyConfig) the effective policy
\* is the one the constructor built, and isOperationAllowed(op) and
\* isPathAllowed(p) answer what they answer on the fresh wrapper
C19_Stateless ==
    /\ config = Built
    /\ \A op \in Operations :
           isOperationAllowed(config, op) = isOperationAllowed(Built, op)
    /\ \A p \in ProbePaths \cup {path} :
           isPathAllowed(impl, config, p) = isPathAllowed(impl, Built, p)
    /\ AskedOperation => ((last.answer = "true") <=> isOperationAllowed(Built, last.arg))
    /\ AskedPath => ((last.answer = "true") <=> isPathAllowed(impl, Built, path))
    /\ AskedConfig => last.result.value = getSafetyConfig(Built)

\* isPathAllowed asked after a call that reached the collaborator, where it
\* succeeded or failed
C19_Witness ==
    /\ AskedPath
    /\ baseCalls > 0
    /\ last.answer = "true"

----------------------------------------------------------------------------
(* C20 *)

\* C20: collaborator outcomes pass through unmodified, in the three
\* implementations: an authorized call invokes the collaborator method once
\* and settles as the collaborator did, with its value when it succeeded and
\* with its very error when it failed; the wrapper adds no error of its own
C20_OutcomePassThrough ==
    [][ last'.answer = "delegated" =>
            /\ baseCalls' = baseCalls + 1
            /\ last'.call.method = Delegate[last'.method]
            /\ last'.base \in BaseOutcomes
            /\ last'.result = last'.base
            /\ last'.error = OK ]_vars

\* an authorized call whose collaborator failed
C20_Witness ==
    /\ last.answer = "delegated"
    /\ last.base = [kind |-> "error", value |-> "ENOENT"]
    /\ last.result.kind = "error"
    /\ baseCalls = 1

----------------------------------------------------------------------------
(* C21 *)

\* the last call threw the error of the operation gate
OperationError ==
    /\ last.error # OK
    /\ last.error[1] \in {"Operation not allowed", "Operation not allowed: "}

\* the last call threw an error of the path check
PathError == last.error \in {<<"Path not allowed">>, <<"Path exceeds maximum depth">>}

\* C21: the operation gate is evaluated before the path check: a call whose
\* operation kind the policy does not permit is rejected with 'Operation not
\* allowed' whatever its path is, and a path error is thrown only by calls
\* whose kind passes the gate
C21_GateBeforePath ==
    last.method \in DOMAIN Gate =>
        /\ ~PolicyPermits(config, Gate[last.method])
               => (OperationError /\ ~PathError /\ last.call = NoCall)
        /\ PathError => PolicyPermits(config, Gate[last.method])

\* a call rejected by the gate on a path that the path check denies too
C21_Witness ==
    /\ last.method \in DOMAIN Gate
    /\ OperationError
    /\ PathCheck(impl, config, path) = <<"Path not allowed">>

----------------------------------------------------------------------------
(* C22 *)

\* what the path check of the implementation in use answers for p under
\* policy c when no depth can exceed maxDepth
WithoutDepthLimit(i, c, p) == PathCheckOf(i, [c EXCEPT !.maxDepth = Len(p) + 1], p)

\* C22: path-not-permitted takes precedence over path-too-deep: a path that
\* the traversal, denylist or allowlist check denies (it is denied whatever
\* maxDepth is) is rejected with 'Path not allowed' also when it is deeper
\* than maxDepth, and 'Path exceeds maximum depth' is thrown only for paths
\* that pass those checks
C22_NotAllowedBeforeTooDeep ==
    GatedCall =>
        /\ WithoutDepthLimit(impl, config, path) # OK
               => (last.error = <<"Path not allowed">> /\ last.call = NoCall)
        /\ last.error = <<"Path exceeds maximum depth">>
               => WithoutDepthLimit(impl, config, path) = OK
        /\ (/\ impl = "lexical"
            /\ Len(CanonicalSegments(path)) > config.maxDepth
            /\ \/ TraversalDenied(config, path)
               \/ ForbiddenDenied(config, path)
               \/ AllowlistDenied(config, path))
               => last.error = <<"Path not allowed">>

\* a path both denied by the denylist and deeper than maxDepth was rejected
C22_Witness ==
    /\ GatedCall
    /\ impl = "lexical"
    /\ ForbiddenDenied(config, path)
    /\ Len(CanonicalSegments(path)) > config.maxDepth
    /\ last.error = <<"Path not allowed">>

----------------------------------------------------------------------------
(* C23 *)

\* C23: a leading './' is display-only in the lexical implementation: for
\* every policy and every relative path p written without it, './p' gets the
\* decision of p, the same error when denied
C23_DotSlashDisplayOnly ==
    (impl = "lexical" /\ AskedPath /\ ~IsAbsolute(path) /\ ~StartsWith(path, DotSlash))
        => /\ validatePath(config, DotSlash \o path) = PathCheck(impl, config, path)
           /\ (validatePath(config, DotSlash \o path) = OK) <=> (last.answer = "true")

----------------------------------------------------------------------------
(* C24, C25 *)

\* the resolved location of p lies in the resolved homePath directory: it
\* is homePath itself or a path below it
InsideHome(c, p) ==
    SegPrefix(AbsSegments(resolve1(c.homePath)), AbsSegments(resolveFromHome(c, p)))

\* the number of segments between the resolved homePath and the resolved
\* location of a path inside it
DepthBelowHome(c, p) ==
    Len(AbsSegments(resolveFromHome(c, p))) - Len(AbsSegments(resolve1(c.homePath)))

\* C24: out-of-root rejection in the homePath implementation: under every
\* policy, with an empty or a non-empty allowlist, a relative request whose
\* resolved location lies outside the resolved homePath directory is denied
\* with 'Path not allowed'
C24_OutOfRootRejected ==
    (/\ impl = "home"
     /\ AskedPath \/ GatedCall
     /\ ~IsAbsolute(path)
     /\ ~InsideHome(config, path))
        => PathDenied

\* C25: the depth limit applies to every allowed request in the homePath
\* implementation: a request that is allowed and located inside homePath,
\* written as a relative or as an absolute path, lies at most maxDepth
\* segments below homePath, and one that passes the other checks and lies
\* deeper is rejected with 'Path exceeds maximum depth'
C25_DepthForEveryRequest ==
    (/\ impl = "home"
     /\ AskedPath \/ GatedCall
     /\ InsideHome(config, path)
     /\ DepthBelowHome(config, path) > config.maxDepth)
        => /\ ~PathPassed
           /\ WithoutDepthLimit(impl, config, path) = OK => PathTooDeepResult

----------------------------------------------------------------------------
(* C26 *)

\* the requested path and, when it is written with a leading './', the
\* spelling of it with a '/' in front
LiteralSpellings(p) == {p} \cup (IF StartsWith(p, DotSlash) THEN {Slash \o p} ELSE {})

\* the comparisons of the denylist: the raw and the normalized string
\* against the entry as written, and each of them without its leading './'
\* against the entry without its leading '/'
LiteralOrCanonicalHit(entry, q) ==
    \/ StartsWith(q, entry)
    \/ StartsWith(normalizePath(q), entry)
    \/ StartsWith(StripPrefix(q, DotSlash), StripPrefix(entry, Slash))
    \/ StartsWith(StripPrefix(normalizePath(q), DotSlash), StripPrefix(entry, Slash))

----------------------------------------------------------------------------
(* C27 *)

\* C27: getSafetyConfig returns an isolated copy: once the caller has changed
\* an array of the object it was handed (pushed to it or truncated it), the
\* wrapper's isPathAllowed, isOperationAllowed and operations still decide as
\* the policy the constructor built does, and getSafetyConfig still returns
\* that policy, built-in forbidden entries included
C27_IsolatedCopy ==
    mutations > 0 =>
        /\ AskedPath => ((last.answer = "true") <=> isPathAllowed(impl, Built, path))
        /\ AskedOperation =>
               ((last.answer = "true") <=> isOperationAllowed(Built, last.arg))
        /\ last.method \in DOMAIN Gate =>
               last.error = Method(impl, Built, last.method, path, "", 0).error
        /\ AskedConfig =>
               /\ last.result.value = getSafetyConfig(Built)
               /\ \A e \in BuiltInForbidden : InSeq(e, last.result.value.forbiddenPaths)

----------------------------------------------------------------------------
(* C28 *)

\* the policy of a wrapper constructed with no configuration while
\* DEFAULT_AI_CONFIG is as the module defines it
Unconfigured ==
    IF impl = "home" THEN ConstructorHome([x \in {} |-> x])
    ELSE IF impl = "legacy" THEN ConstructorLegacy([x \in {} |-> x])
    ELSE Constructor([x \in {} |-> x])

\* C28: wrapper instances do not interfere: when the wrapper was constructed
\* without allowedPaths and without allowedOperations, whatever is called on
\* it and whatever the caller does to the values returned, the arrays of
\* DEFAULT_AI_CONFIG stay as the module defines them, and a second wrapper
\* constructed with no configuration, before or after, decides every
\* operation kind and the requested path as it does on a fresh module
C28_NoInterference ==
    (~Has(given, "allowedPaths") /\ ~Has(given, "allowedOperations")) =>
        /\ \A f \in ArrayFields : ModuleDefaults[f] = DEFAULT_AI_CONFIG[f]
        /\ \A op \in Operations :
               isOperationAllowed(OtherInstance, op) = isOperationAllowed(Unconfigured, op)
        /\ isPathAllowed(impl, OtherInstance, path) = isPathAllowed(impl, Unconfigured, path)

----------------------------------------------------------------------------
(* C29 *)

\* the operation kind of public method m
OwnKind(m) == IF m = "createDir" THEN "ensureDir" ELSE m

\* C29: each public method is gated by its own operation kind (createDir by
\* 'ensureDir'): it throws the error of the gate exactly when the policy does
\* not permit that kind; when it reaches the collaborator it calls the method
\* of the same name (createDir calls ensureDir) with the content and the mode
\* it was given, and the policy permits the kind of the collaborator method
\* called
C29_OwnKindSameMethod ==
    last.method \in DOMAIN Gate =>
        /\ OperationError <=> ~PolicyPermits(config, OwnKind(last.method))
        /\ last.call # NoCall =>
               /\ last.call.method = OwnKind(last.method)
               /\ last.call.content = last.content
               /\ last.call.mode = last.mode
               /\ PolicyPermits(config, last.call.method)

\* writeFile reaches the collaborator's writeFile with the content it was
\* given, under a policy that lists readFile and writeFile only
C29_Witness ==
    /\ last.method = "writeFile"
    /\ last.content = "more"
    /\ last.call.method = "writeFile"
    /\ last.call.content = "more"
    /\ config.allowedOperations = <<"readFile", "writeFile">>

----------------------------------------------------------------------------
(* C30 *)

\* every entry of the allowlist is a './'-relative prefix, and there is one
RelativeAllowlist(c) ==
    /\ c.allowedPaths # <<>>
    /\ \A k \in 1..Len(c.allowedPaths) : StartsWith(c.allowedPaths[k], DotSlash)

\* C30: absolute paths under a relative allowlist, lexical implementation:
\* when allowedPaths is non-empty and every entry starts with './', a request
\* whose path starts with '/' is denied with 'Path not allowed' whatever its
\* segments are: isPathAllowed answers false, and an operation whose kind
\* passes the gate throws 'Path not allowed' and does not reach the
\* collaborator
C30_AbsoluteDenied ==
    (impl = "lexical" /\ RelativeAllowlist(config) /\ StartsWith(path, Slash)) =>
        /\ AskedPath => last.answer = "false"
        /\ last.method \in DOMAIN Gate =>
               /\ last.call = NoCall
               /\ PolicyPermits(config, Gate[last.method]) => last.error = PathNotAllowed

====
